---------------------------- MODULE Spec2Model ----------------------------
(***************************************************************************)
(* A model of alphalens/utils.py: forward returns, factor quantization,   *)
(* the alignment pipeline, group demeaning and the common-start-return    *)
(* aggregator.  Tables are positional (an ordered index plus one value    *)
(* sequence per column), numbers are exact rationals <<num, den>>, and a  *)
(* missing value (NaN) is the pair <<0, 0>>.                               *)
(***************************************************************************)
EXTENDS Integers, Sequences, FiniteSets, TLC

VARIABLES
    pc,             \* position of the running call
    args,           \* the arguments the caller passed (the caller's objects)
    merged_data,    \* the table being built by the pipeline; demean_forward_returns: the caller's table
    groupby,        \* get_clean_factor_and_forward_returns: the local `groupby` (rebound by the code)
    factor_data,    \* demean_forward_returns: the local copy
    all_returns,    \* common_start_returns: the list of windows
    work,           \* the computations the call has performed so far, in order
    stdout,         \* number of diagnostics printed
    raised,         \* the exception that left the call, or NoExc
    returned,       \* the value the call returned
    float_format,   \* the pandas option display.float_format (global to the process)
    prev_option     \* print_table: the local prev_option

vars == <<pc, args, merged_data, groupby, factor_data, all_returns,
          work, stdout, raised, returned, float_format, prev_option>>

-----------------------------------------------------------------------------
(* Bounds of the model *)

\* longest price panel (number of dates)
MaxDates == 3

\* most rows of one date in a table handed to quantize_factor
MaxRows == 4

-----------------------------------------------------------------------------
(* Exact rational arithmetic; NaN propagates as in IEEE arithmetic *)

NaN == <<0, 0>>

IsNaN(x) == x[2] = 0

Abs(n) == IF n < 0 THEN -n ELSE n

RECURSIVE GCD(_, _)
GCD(a, b) == IF b = 0 THEN a ELSE GCD(b, a % b)

Rat(n, d) ==
    LET s == IF d < 0 THEN -1 ELSE 1
        g == GCD(Abs(n), Abs(d))
    IN  IF d = 0 THEN NaN ELSE <<(s * n) \div g, (s * d) \div g>>

Num(n) == <<n, 1>>

RAdd(x, y) == IF IsNaN(x) \/ IsNaN(y) THEN NaN
              ELSE Rat(x[1] * y[2] + y[1] * x[2], x[2] * y[2])

RSub(x, y) == IF IsNaN(x) \/ IsNaN(y) THEN NaN
              ELSE Rat(x[1] * y[2] - y[1] * x[2], x[2] * y[2])

RMul(x, y) == IF IsNaN(x) \/ IsNaN(y) THEN NaN
              ELSE Rat(x[1] * y[1], x[2] * y[2])

\* division by zero gives inf in numpy; the panels of the model hold no zero price
RDiv(x, y) == IF IsNaN(x) \/ IsNaN(y) THEN NaN
              ELSE Rat(x[1] * y[2], x[2] * y[1])

\* every comparison with NaN is False
RLess(x, y) == ~IsNaN(x) /\ ~IsNaN(y) /\ x[1] * y[2] < y[1] * x[2]

RLeq(x, y) == ~IsNaN(x) /\ ~IsNaN(y) /\ x[1] * y[2] <= y[1] * x[2]

-----------------------------------------------------------------------------
(* Sequences *)

\* f with every value computed once (TLC evaluates a function expression
\* lazily, on each application)
Fix(f) == f @@ <<>>

Range(s) == {s[i] : i \in DOMAIN s}

RECURSIVE SumSeq(_)
SumSeq(s) == IF s = <<>> THEN Num(0) ELSE RAdd(Head(s), SumSeq(Tail(s)))

NotNaN(x) == ~IsNaN(x)

\* position of key k in sequence s, 0 when absent
Pos(s, k) == IF \E i \in DOMAIN s : s[i] = k
             THEN CHOOSE i \in DOMAIN s : s[i] = k /\ \A j \in 1..(i-1) : s[j] # k
             ELSE 0

\* the subsequence of s at the positions ps (a sequence of positions)
Take(s, ps) == Fix([i \in DOMAIN ps |-> s[ps[i]]])

Iota(n) == Fix([i \in 1..n |-> i])

-----------------------------------------------------------------------------
(* pandas objects.  A Series is [index, values]; a DataFrame is             *)
(* [index, columns, data] with data[c] the value sequence of column c.      *)
(* A column label is an int (a period) or a str (a sequence of characters). *)

ColInt(n) == [kind |-> "int", n |-> n, s |-> <<>>]

ColStr(s) == [kind |-> "str", n |-> 0, s |-> s]

FACTOR == ColStr(<<"f", "a", "c", "t", "o", "r">>)

GROUP == ColStr(<<"g", "r", "o", "u", "p">>)

FACTOR_QUANTILE == ColStr(<<"f", "a", "c", "t", "o", "r", "_", "q", "u", "a", "n", "t", "i", "l", "e">>)

Series(idx, vals) == [index |-> idx, values |-> vals]

EmptySeries == Series(<<>>, <<>>)

\* label-based lookup, NaN where the label is absent
Lookup(ser, k) ==
    LET p == Pos(ser.index, k) IN IF p = 0 THEN NaN ELSE ser.values[p]

\* Series.dropna()
SeriesDropna(ser) ==
    LET ps == SelectSeq(Iota(Len(ser.index)), LAMBDA i : ~IsNaN(ser.values[i]))
    IN  Series(Take(ser.index, ps), Take(ser.values, ps))

\* df[label] = ser : the values are aligned on the frame's index by label
SetColumn(df, label, ser) ==
    LET col == Fix([i \in DOMAIN df.index |-> Lookup(ser, df.index[i])])
    IN  [index   |-> df.index,
         columns |-> IF label \in Range(df.columns) THEN df.columns
                     ELSE Append(df.columns, label),
         data    |-> Fix([c \in DOMAIN df.data \cup {label} |->
                            IF c = label THEN col ELSE df.data[c]])]

\* DataFrame.dropna(): keep the rows with no missing value in any column
Dropna(df) ==
    LET ps == SelectSeq(Iota(Len(df.index)),
                        LAMBDA i : \A c \in DOMAIN df.data : ~IsNaN(df.data[c][i]))
    IN  [index   |-> Take(df.index, ps),
         columns |-> df.columns,
         data    |-> Fix([c \in DOMAIN df.data |-> Take(df.data[c], ps)])]

\* df[label] as a Series
Column(df, label) == Series(df.index, df.data[label])

\* pd.MultiIndex.from_product([dates, assets]) in row-major order
FromProduct(dates, assets) ==
    Fix([i \in 1..(Len(dates) * Len(assets)) |->
        <<dates[((i - 1) \div Len(assets)) + 1], assets[((i - 1) % Len(assets)) + 1]>>])

-----------------------------------------------------------------------------
(* compute_forward_returns *)

None == [some |-> FALSE]

Some(v) == [some |-> TRUE, v |-> v]

\* fillna(method='pad') of one column: the last value seen so far
RECURSIVE Pad(_)
Pad(col) ==
    IF col = <<>> THEN <<>>
    ELSE LET n    == Len(col)
             init == Pad(SubSeq(col, 1, n - 1))
         IN  Append(init, IF IsNaN(col[n]) /\ n > 1 THEN init[n - 1] ELSE col[n])

\* Series.shift(k): the value at position i moves to position i + k
Shift(col, k) ==
    Fix([i \in DOMAIN col |-> IF i - k \in DOMAIN col THEN col[i - k] ELSE NaN])

\* Series.pct_change(period): pad, divide by the column shifted by period,
\* subtract 1, and put NaN back where the column itself was missing
PctChange(col, period) ==
    LET data == Pad(col)
        prev == Shift(data, period)
    IN  Fix([i \in DOMAIN col |->
            IF IsNaN(col[i]) THEN NaN
            ELSE RSub(RDiv(data[i], prev[i]), Num(1))])

\* Series.mean(): the mean of the values that are not missing
Mean(col) ==
    LET xs == SelectSeq(col, NotNaN)
    IN  IF xs = <<>> THEN NaN ELSE RDiv(SumSeq(xs), Num(Len(xs)))

\* Series.var(ddof=1); std() is its square root
Var(col) ==
    LET xs == SelectSeq(col, NotNaN)
        m  == Mean(col)
        sq == Fix([i \in DOMAIN xs |-> RMul(RSub(xs[i], m), RSub(xs[i], m))])
    IN  IF Len(xs) < 2 THEN NaN ELSE RDiv(SumSeq(sq), Num(Len(xs) - 1))

\* abs(delta - delta.mean()) > filter_zscore * delta.std(), compared on the
\* squares (both sides are non-negative for a threshold >= 0)
ZscoreMask(col, z) ==
    LET m == Mean(col)
        v == Var(col)
    IN  Fix([i \in DOMAIN col |->
            RLess(RMul(RMul(z, z), v),
                  RMul(RSub(col[i], m), RSub(col[i], m)))])

\* mutant: the percent change is not shifted back to the originating date
DeltaColumn_NoShift(col, period, filter_zscore) ==
    LET delta == PctChange(col, period)
    IN  IF filter_zscore.some
        THEN LET mask == ZscoreMask(delta, filter_zscore.v)
             IN  Fix([i \in DOMAIN delta |-> IF mask[i] THEN NaN ELSE delta[i]])
        ELSE delta

\* one column of delta for one period (lines 136-140)
DeltaColumn(col, period, filter_zscore) ==
    LET delta == Shift(PctChange(col, period), -period)
    IN  IF filter_zscore.some
        THEN LET mask == ZscoreMask(delta, filter_zscore.v)
             IN  Fix([i \in DOMAIN delta |-> IF mask[i] THEN NaN ELSE delta[i]])
        ELSE delta

\* DataFrame.stack(): wide (date x asset) to long, missing values dropped
Stack(index, columns, data) ==
    LET keys == FromProduct(index, columns)
        vals == Fix([i \in DOMAIN keys |->
                    data[keys[i][2]][Pos(index, keys[i][1])]])
    IN  SeriesDropna(Series(keys, vals))

RECURSIVE ForwardReturnsLoop(_, _, _, _)
ForwardReturnsLoop(forward_returns, prices, periods, filter_zscore) ==
    IF periods = <<>> THEN forward_returns
    ELSE LET period == Head(periods)
             delta  == Fix([a \in Range(prices.columns) |->
                          DeltaColumn(prices.data[a], period, filter_zscore)])
         IN  ForwardReturnsLoop(
                 SetColumn(forward_returns, ColInt(period),
                           Stack(prices.index, prices.columns, delta)),
                 prices, Tail(periods), filter_zscore)

compute_forward_returns(prices, periods, filter_zscore) ==
    ForwardReturnsLoop(
        [index   |-> FromProduct(prices.index, prices.columns),
         columns |-> <<>>,
         data    |-> <<>>],
        prices, periods, filter_zscore)

-----------------------------------------------------------------------------
(* pandas qcut and cut, as quantize_factor uses them (labels=False) *)

\* an exception: its type, the fragments of its message, and the identifiers it lists
Exc(type, msg, assets, codes) ==
    [type |-> type, msg |-> msg, assets |-> assets, codes |-> codes]

NoExc == Exc("none", <<>>, {}, {})

\* the outcome of a call: it raised exc, or returned value
Raise(exc) == [raised |-> exc, value |-> <<>>]

Return(v) == [raised |-> NoExc, value |-> v]

BIN_EDGES_MSG == "Bin edges must be unique"

BinEdgesError == Exc("ValueError", <<BIN_EDGES_MSG, ": <repr of the edges>">>, {}, {})

ConfigError ==
    Exc("ValueError", <<"Either quantiles or bins should be provided">>, {}, {})

MonotonicError == Exc("ValueError", <<"bins must increase monotonically.">>, {}, {})

\* a bucket specification: an int count or an explicit sequence of edges
Count(k) == [kind |-> "count", n |-> k, edges |-> <<>>]

Edges(es) == [kind |-> "edges", n |-> 0, edges |-> es]

\* np.linspace(a, b, k + 1)
Linspace(a, b, k) ==
    Fix([j \in 1..(k + 1) |-> RAdd(a, RDiv(RMul(Num(j - 1), RSub(b, a)), Num(k)))])

Floor(x) == x[1] \div x[2]

\* algos.quantile: linear interpolation between the order statistics
Quantile(x, q) ==
    LET sorted == SortSeq(x, RLess)
        idx    == RMul(q, Num(Len(x) - 1))
        lo     == Floor(idx)
        frac   == RSub(idx, Num(lo))
    IN  IF frac = Num(0) THEN sorted[lo + 1]
        ELSE RAdd(sorted[lo + 1],
                  RMul(frac, RSub(sorted[lo + 2], sorted[lo + 1])))

\* bins.searchsorted(v, side='left'): the number of edges below v
SearchSortedLeft(bins, v) == Cardinality({j \in DOMAIN bins : RLess(bins[j], v)})

\* _bins_to_cuts with labels=False: the 0-based bucket of every value, NaN for
\* a value outside the edges; duplicate edges are an error
BinsToCuts(x, bins, include_lowest) ==
    IF Cardinality(Range(bins)) < Len(bins) THEN Raise(BinEdgesError)
    ELSE Return(Fix([i \in DOMAIN x |->
            LET ids == IF include_lowest /\ x[i] = bins[1] THEN 1
                       ELSE SearchSortedLeft(bins, x[i])
            IN  IF ids = 0 \/ ids = Len(bins) THEN NaN ELSE Num(ids - 1)]))

\* pd.qcut(x, q, labels=False)
Qcut(x, q) ==
    LET quantiles == IF q.kind = "count" THEN Linspace(Num(0), Num(1), q.n)
                     ELSE q.edges
        bins      == Fix([j \in DOMAIN quantiles |-> Quantile(x, quantiles[j])])
    IN  BinsToCuts(x, bins, TRUE)

Min(x) == CHOOSE v \in Range(x) : \A w \in Range(x) : RLeq(v, w)

Max(x) == CHOOSE v \in Range(x) : \A w \in Range(x) : RLeq(w, v)

\* pd.cut(x, bins, labels=False), right-closed intervals
Cut(x, b) ==
    IF b.kind = "count"
    THEN LET mn  == Min(x)
             mx  == Max(x)
             eps == Rat(1, 1000)
         IN  IF mn = mx
             THEN BinsToCuts(x,
                     Linspace(RSub(mn, RMul(eps, Num(Abs(mn[1])) )),
                              RAdd(mx, RMul(eps, Num(Abs(mx[1])))), b.n),
                     FALSE)
             ELSE LET lin == Linspace(mn, mx, b.n)
                      adj == RMul(RSub(mx, mn), eps)
                  IN  BinsToCuts(x, [lin EXCEPT ![1] = RSub(lin[1], adj)], FALSE)
    ELSE IF \E j \in 1..(Len(b.edges) - 1) : RLess(b.edges[j + 1], b.edges[j])
         THEN Raise(MonotonicError)
         ELSE BinsToCuts(x, b.edges, FALSE)

-----------------------------------------------------------------------------
(* quantize_factor and its decorator *)

AddOne(outcome) ==
    IF outcome.raised # NoExc THEN outcome
    ELSE Return(Fix([i \in DOMAIN outcome.value |-> RAdd(outcome.value[i], Num(1))]))

\* quantile_calc (lines 87-92)
quantile_calc(x, quantiles, bins) ==
    IF quantiles.some /\ ~bins.some THEN AddOne(Qcut(x, quantiles.v))
    ELSE IF bins.some /\ ~quantiles.some THEN AddOne(Cut(x, bins.v))
    ELSE Raise(ConfigError)

\* mutant: the grouper leaves the date out
GroupKey_NoDate(df, i, by_group) ==
    IF by_group THEN <<Num(0), df.data[GROUP][i]>> ELSE <<Num(0)>>

\* the key of row i under the grouper: its date, and its group if by_group
GroupKey(df, i, by_group) ==
    IF by_group THEN <<Num(df.index[i][1]), df.data[GROUP][i]>>
    ELSE <<Num(df.index[i][1])>>

KeyLess(k1, k2) ==
    \/ RLess(k1[1], k2[1])
    \/ k1[1] = k2[1] /\ Len(k1) = 2 /\ RLess(k1[2], k2[2])

\* the group keys, sorted as groupby sorts them
GroupKeys(df, by_group) ==
    LET firsts == SelectSeq(Iota(Len(df.index)),
                    LAMBDA i : \A j \in 1..(i - 1) :
                        GroupKey(df, j, by_group) # GroupKey(df, i, by_group))
    IN  SortSeq(Fix([g \in DOMAIN firsts |-> GroupKey(df, firsts[g], by_group)]), KeyLess)

\* the row positions of one group, in the frame's order
GroupRows(df, key, by_group) ==
    SelectSeq(Iota(Len(df.index)), LAMBDA i : GroupKey(df, i, by_group) = key)

\* groupby(grouper)['factor'].apply(quantile_calc, quantiles, bins): the
\* function is applied group by group in key order, the first exception
\* leaves the call, and the results keep the frame's index
GroupbyApply(df, by_group, quantiles, bins) ==
    LET keys     == GroupKeys(df, by_group)
        rows     == Fix([g \in DOMAIN keys |-> GroupRows(df, keys[g], by_group)])
        outcomes == Fix([g \in DOMAIN keys |->
                        quantile_calc(Take(df.data[FACTOR], rows[g]), quantiles, bins)])
        failed   == {g \in DOMAIN keys : outcomes[g].raised # NoExc}
    IN  IF failed # {}
        THEN Raise(outcomes[CHOOSE g \in failed : \A h \in failed : g <= h].raised)
        ELSE Return(Series(df.index,
                Fix([i \in DOMAIN df.index |->
                    LET g == CHOOSE h \in DOMAIN keys : keys[h] = GroupKey(df, i, by_group)
                    IN  outcomes[g].value[Pos(rows[g], i)]])))

\* the body of quantize_factor (lines 94-102)
quantize_factor_body(fd, quantiles, bins, by_group) ==
    IF by_group /\ GROUP \notin Range(fd.columns)
    THEN Raise(Exc("KeyError", <<"group">>, {}, {}))
    ELSE LET factor_quantile ==
                 GroupbyApply(fd, by_group, quantiles, bins)
         IN  IF factor_quantile.raised # NoExc THEN factor_quantile
             ELSE Return(SeriesDropna(factor_quantile.value))

Contains(msg, fragment) == \E i \in DOMAIN msg : msg[i] = fragment

\* mutant: the decorator prints the diagnostic and swallows the exception
non_unique_bin_edges_error_Swallow(outcome) ==
    IF outcome.raised.type = "ValueError" /\ Contains(outcome.raised.msg, BIN_EDGES_MSG)
    THEN [raised |-> NoExc, value |-> EmptySeries, printed |-> 1]
    ELSE [raised |-> outcome.raised, value |-> outcome.value, printed |-> 0]

\* non_unique_bin_edges_error.dec (lines 30-52): the outcome of the wrapped
\* call passes through; the diagnostic is printed for a ValueError whose
\* message contains 'Bin edges must be unique'
non_unique_bin_edges_error(outcome) ==
    [raised  |-> outcome.raised,
     value   |-> outcome.value,
     printed |-> IF /\ outcome.raised.type = "ValueError"
                    /\ Contains(outcome.raised.msg, BIN_EDGES_MSG)
                 THEN 1 ELSE 0]

\* quantize_factor as callers see it: the decorated function (line 56)
quantize_factor(fd, quantiles, bins, by_group) ==
    non_unique_bin_edges_error(quantize_factor_body(fd, quantiles, bins, by_group))

-----------------------------------------------------------------------------
(* State shared by the specifications *)

EmptyFrame == [index |-> <<>>, columns |-> <<>>, data |-> <<>>]

\* the state of a call that has not started
Fresh ==
    /\ merged_data = EmptyFrame
    /\ groupby = None
    /\ factor_data = EmptyFrame
    /\ all_returns = <<>>
    /\ work = <<>>
    /\ stdout = 0
    /\ raised = NoExc
    /\ returned = EmptyFrame
    /\ float_format = None
    /\ prev_option = None

\* the i-th timestamp of a price panel's date axis
TS(i) == 10 * i

PanelAssets == <<"A", "B">>

PanelCells == {Num(1), Num(2), NaN}

\* the panel of n dates whose columns hold the values d
Panel(n, d) == [index |-> [i \in 1..n |-> TS(i)], columns |-> PanelAssets, data |-> d]

-----------------------------------------------------------------------------
(* Specification SpecFR: calls of compute_forward_returns *)

InitFR ==
    /\ pc = "compute_forward_returns"
    /\ \E n \in 1..MaxDates :
       \E d \in [Range(PanelAssets) -> [1..n -> PanelCells]] :
       \E ps \in {<<1>>, <<2>>, <<1, 2>>} :
       \E z \in {None, Some(Rat(1, 2)), Some(Num(1))} :
          args = [prices |-> Panel(n, d), periods |-> ps, filter_zscore |-> z]
    /\ Fresh

ComputeForwardReturnsCall ==
    /\ pc = "compute_forward_returns"
    /\ returned' = compute_forward_returns(args.prices, args.periods,
                                           args.filter_zscore)
    /\ pc' = "done"
    /\ UNCHANGED <<args, float_format, prev_option, merged_data, groupby, factor_data, all_returns,
                   work, stdout, raised>>

NextFR == ComputeForwardReturnsCall

SpecFR == InitFR /\ [][NextFR]_vars

NoMissingPrices(prices) ==
    \A a \in Range(prices.columns) : \A i \in DOMAIN prices.index :
        ~IsNaN(prices.data[a][i])

\* C1: for a price panel with no missing values and no outlier threshold, the
\* forward return stored at (date D, asset) in column P is
\* price[D+P]/price[D] - 1 with D+P counted in index positions, so it is a
\* function of the prices at D and D+P alone; whatever the inputs, it is
\* missing when position D+P lies outside the panel, and the table has one row
\* per (date, asset) of the panel and one column per period.
C1_ForwardReturnIsPriceRatio ==
    pc = "done" =>
        LET prices == args.prices
            n      == Len(prices.index)
        IN  /\ returned.index = FromProduct(prices.index, prices.columns)
            /\ DOMAIN returned.data = {ColInt(P) : P \in Range(args.periods)}
            /\ \A P \in Range(args.periods) : \A D \in 1..n :
               \A a \in Range(prices.columns) :
                 LET v == Lookup(Column(returned, ColInt(P)), <<prices.index[D], a>>)
                 IN  /\ D + P > n => IsNaN(v)
                     /\ (NoMissingPrices(prices) /\ ~args.filter_zscore.some /\ D + P <= n)
                            => v = RSub(RDiv(prices.data[a][D + P], prices.data[a][D]),
                                        Num(1))

\* a panel with no missing price, no threshold, and a period whose window fits
\* at some dates and falls off the panel's end at others
C1_Witness ==
    /\ pc = "done"
    /\ NoMissingPrices(args.prices)
    /\ ~args.filter_zscore.some
    /\ Len(args.prices.index) = 3
    /\ args.periods = <<1, 2>>
    /\ \E a \in Range(args.prices.columns) :
          /\ Lookup(Column(returned, ColInt(2)), <<TS(1), a>>) = Num(1)
          /\ IsNaN(Lookup(Column(returned, ColInt(2)), <<TS(2), a>>))

-----------------------------------------------------------------------------
(* Specification SpecQF: calls of quantize_factor *)

QFAssets == <<"A", "B", "C", "D", "E">>

FactorValues == {Num(1), Num(2), Num(3), Num(4)}

\* the group every asset belongs to in the tables that carry a group column
QFGroupOf(a) == IF a \in {"A", "C", "E"} THEN Num(1) ELSE Num(2)

\* the index of a table with m1 rows on the first date and m2 on the second
QFIndex(m1, m2) ==
    [i \in 1..(m1 + m2) |->
        IF i <= m1 THEN <<TS(1), QFAssets[i]>> ELSE <<TS(2), QFAssets[i - m1]>>]

\* the table with that index and the factor values f, with or without a
\* group column
QFTable(m1, m2, f, with_group) ==
    [index   |-> QFIndex(m1, m2),
     columns |-> IF with_group THEN <<FACTOR, GROUP>> ELSE <<FACTOR>>,
     data    |-> IF with_group
                 THEN [c \in {FACTOR, GROUP} |->
                         IF c = FACTOR THEN f
                         ELSE [i \in 1..(m1 + m2) |-> QFGroupOf(QFIndex(m1, m2)[i][2])]]
                 ELSE [c \in {FACTOR} |-> f]]

\* (quantiles, bins, by_group, the table has a group column) as callers pass them
QFConfigs ==
    {<<Some(Count(2)), None, FALSE, FALSE>>,
     <<Some(Count(3)), None, FALSE, FALSE>>,
     <<Some(Edges(<<Rat(1, 4), Num(1)>>)), None, FALSE, FALSE>>,
     <<None, Some(Count(3)), FALSE, FALSE>>,
     <<None, Some(Edges(<<Num(1), Num(2), Num(4)>>)), FALSE, FALSE>>,
     <<None, None, FALSE, FALSE>>,
     <<Some(Count(2)), Some(Count(3)), FALSE, FALSE>>,
     <<Some(Count(2)), None, TRUE, TRUE>>,
     <<Some(Count(2)), None, FALSE, TRUE>>,
     <<None, Some(Count(3)), TRUE, TRUE>>,
     <<Some(Count(2)), None, TRUE, FALSE>>}

InitQF ==
    /\ pc = "quantize_factor"
    /\ \E m1 \in 0..MaxRows : \E m2 \in {0, 2} :
       \E f1 \in [1..m1 -> FactorValues] :
       \E f2 \in [1..m2 -> {Num(1), Num(3)}] :
       \E c \in QFConfigs :
          args = [factor_data |-> QFTable(m1, m2, f1 \o f2, c[4]),
                  quantiles |-> c[1], bins |-> c[2], by_group |-> c[3]]
    /\ Fresh

\* a call of the decorated quantize_factor: it prints what the decorator
\* prints, and returns or raises
QuantizeFactorCall ==
    /\ pc = "quantize_factor"
    /\ LET outcome == quantize_factor(args.factor_data, args.quantiles,
                                      args.bins, args.by_group)
       IN  /\ stdout' = stdout + outcome.printed
           /\ raised' = outcome.raised
           /\ returned' = IF outcome.raised = NoExc THEN outcome.value ELSE returned
           /\ pc' = IF outcome.raised = NoExc THEN "done" ELSE "raised"
    /\ UNCHANGED <<args, float_format, prev_option, merged_data, groupby, factor_data, all_returns, work>>

NextQF == QuantizeFactorCall

SpecQF == InitQF /\ [][NextQF]_vars

\* the rows of fd in the partition of row i: the same date, and the same
\* group when by_group is set
Partition(fd, i, by_group) ==
    {j \in DOMAIN fd.index :
        /\ fd.index[j][1] = fd.index[i][1]
        /\ by_group => fd.data[GROUP][j] = fd.data[GROUP][i]}

\* the number of rows of row i's partition with a smaller factor value, and
\* with the same factor value
RankOf(fd, i, by_group) ==
    Cardinality({j \in Partition(fd, i, by_group) :
                    RLess(fd.data[FACTOR][j], fd.data[FACTOR][i])})

TiedWith(fd, i, by_group) ==
    Cardinality({j \in Partition(fd, i, by_group) :
                    fd.data[FACTOR][j] = fd.data[FACTOR][i]})

\* the value of row i is shared by several rows of its partition, and these
\* rows lie on both sides of one of the k - 1 inner bucket boundaries or cover
\* two of the k + 1 bucket edges; edge e sits at sorted position (n - 1) * e / k
TieSpansBoundary(fd, i, by_group, k) ==
    LET n  == Cardinality(Partition(fd, i, by_group))
        lo == RankOf(fd, i, by_group)
        hi == lo + TiedWith(fd, i, by_group) - 1
    IN  /\ hi > lo
        /\ \/ \E e \in 1..(k - 1) : lo * k <= (n - 1) * e /\ (n - 1) * e < hi * k
           \/ \E e1, e2 \in 0..k :
                 e1 < e2 /\ lo * k <= (n - 1) * e1 /\ (n - 1) * e2 <= hi * k

\* the bucket of the row of rank r among n rows cut into k equal-frequency buckets
RankBucket(r, n, k) ==
    LET below == Cardinality({e \in 0..k : (n - 1) * e < r * k})
    IN  IF below = 0 THEN 1 ELSE below

BucketSize(fd, ser, i, by_group, b) ==
    Cardinality({j \in Partition(fd, i, by_group) : Lookup(ser, fd.index[j]) = Num(b)})

InnerOutcome ==
    quantize_factor_body(args.factor_data, args.quantiles, args.bins, args.by_group)

IsBinEdgesFailure(exc) ==
    exc.type = "ValueError" /\ Contains(exc.msg, BIN_EDGES_MSG)

\* C7: when bucketing fails on non-unique bin edges the diagnostic is printed
\* exactly once and the same exception reaches the caller, no value being
\* returned; any other failure reaches the caller unchanged with nothing
\* printed; a call that succeeds prints nothing.
C7_DiagnosticThenReraise ==
    pc \in {"done", "raised"} =>
        /\ IsBinEdgesFailure(InnerOutcome.raised) =>
              stdout = 1 /\ pc = "raised" /\ raised = InnerOutcome.raised
        /\ (InnerOutcome.raised # NoExc /\ ~IsBinEdgesFailure(InnerOutcome.raised)) =>
              stdout = 0 /\ pc = "raised" /\ raised = InnerOutcome.raised
        /\ InnerOutcome.raised = NoExc =>
              stdout = 0 /\ pc = "done" /\ raised = NoExc

\* a date whose two rows share one factor value: both quantile edges collide
C7_Witness ==
    /\ pc = "raised"
    /\ stdout = 1
    /\ raised = BinEdgesError
    /\ args.quantiles = Some(Count(2))
    /\ args.factor_data.index = QFIndex(2, 0)
    /\ args.factor_data.data[FACTOR] = <<Num(2), Num(2)>>

\* a failure of another kind reaches the caller with nothing printed
C7_WitnessOtherFailure ==
    /\ pc = "raised"
    /\ stdout = 0
    /\ raised = ConfigError

-----------------------------------------------------------------------------
(* get_clean_factor_and_forward_returns, statement by statement *)

TimezoneError == Exc("NonMatchingTimezoneError", <<"The timezone of 'factor' is not the same as the timezone of 'prices'.">>, {}, {})

\* the assets of a (date, asset) index
AssetsOf(index) == {index[i][2] : i \in DOMAIN index}

\* lines 343-347: the timezone check
TimezoneCheck ==
    /\ pc = "get_clean_factor_and_forward_returns"
    /\ IF args.factor_tz # args.prices_tz
       THEN /\ raised' = TimezoneError
            /\ pc' = "raised"
       ELSE /\ raised' = raised
            /\ pc' = "forward_returns"
    /\ UNCHANGED <<args, float_format, prev_option, merged_data, groupby, factor_data, all_returns,
                   work, stdout, returned>>

\* line 349: merged_data = compute_forward_returns(prices, periods, filter_zscore)
ForwardReturns ==
    /\ pc = "forward_returns"
    /\ merged_data' = compute_forward_returns(args.prices, args.periods,
                                              args.filter_zscore)
    /\ work' = Append(work, "forward_returns")
    /\ pc' = "attach_factor"
    /\ UNCHANGED <<args, float_format, prev_option, groupby, factor_data, all_returns, stdout, raised, returned>>

\* mutant: the factor's values are attached by position, not by (date, asset)
AttachFactor_Positional ==
    /\ pc = "attach_factor"
    /\ merged_data' =
          SetColumn(merged_data, FACTOR,
                    Series(merged_data.index,
                           [i \in DOMAIN merged_data.index |->
                               IF i \in DOMAIN args.factor.values
                               THEN args.factor.values[i] ELSE NaN]))
    /\ work' = Append(work, "factor")
    /\ pc' = "attach_group"
    /\ UNCHANGED <<args, float_format, prev_option, groupby, factor_data, all_returns, stdout, raised, returned>>

\* lines 351-353: merged_data['factor'] = factor
AttachFactor ==
    /\ pc = "attach_factor"
    /\ merged_data' = SetColumn(merged_data, FACTOR, args.factor)
    /\ work' = Append(work, "factor")
    /\ pc' = "attach_group"
    /\ UNCHANGED <<args, float_format, prev_option, groupby, factor_data, all_returns, stdout, raised, returned>>

\* mutant: the check stops at the first asset without an entry
GroupFromDict_FirstGap(factor, dict) ==
    LET missing == SelectSeq(factor.index, LAMBDA k : k[2] \notin DOMAIN dict)
    IN  IF missing # <<>>
        THEN Raise(Exc("KeyError", <<"Assets ", " not in group mapping">>,
                       {missing[1][2]}, {}))
        ELSE Return(Series(factor.index,
                           Fix([i \in DOMAIN factor.index |-> dict[factor.index[i][2]]])))

\* lines 356-367: a dict is checked against the factor's assets and broadcast
\* over the factor's index
GroupFromDict(factor, dict) ==
    LET diff == AssetsOf(factor.index) \ DOMAIN dict
    IN  IF diff # {}
        THEN Raise(Exc("KeyError", <<"Assets ", " not in group mapping">>, diff, {}))
        ELSE Return(Series(factor.index,
                           Fix([i \in DOMAIN factor.index |-> dict[factor.index[i][2]]])))

\* lines 369-378: the codes are checked against the labels and replaced, value
\* by value, in a new Series built on the factor's index
GroupLabelled(factor, grp, labels) ==
    LET diff == Range(grp.values) \ DOMAIN labels
    IN  IF diff # {}
        THEN Raise(Exc("KeyError", <<"groups ", " not in passed group names">>, {}, diff))
        ELSE IF Len(grp.values) # Len(factor.index)
        THEN Raise(Exc("ValueError", <<"Length of passed values does not match the index">>, {}, {}))
        ELSE Return(Series(factor.index,
                           Fix([i \in DOMAIN grp.values |-> labels[grp.values[i]]])))

\* lines 355-380: the local groupby after the dict and label steps
GroupResolved(factor, grp, labels) ==
    LET from_dict == IF grp.kind = "dict" THEN GroupFromDict(factor, grp.map)
                     ELSE Return(grp.ser)
    IN  IF from_dict.raised # NoExc \/ ~labels.some THEN from_dict
        ELSE GroupLabelled(factor, from_dict.value, labels.v)

AttachGroup ==
    /\ pc = "attach_group"
    /\ IF ~args.groupby.some
       THEN /\ pc' = "dropna"
            /\ UNCHANGED <<merged_data, groupby, raised, work>>
       ELSE LET resolved == GroupResolved(args.factor, args.groupby.v,
                                          args.groupby_labels)
            IN  IF resolved.raised # NoExc
                THEN /\ raised' = resolved.raised
                     /\ pc' = "raised"
                     /\ UNCHANGED <<merged_data, groupby, work>>
                ELSE /\ groupby' = Some(resolved.value)
                     /\ merged_data' = SetColumn(merged_data, GROUP, resolved.value)
                     /\ work' = Append(work, "group")
                     /\ pc' = "dropna"
                     /\ raised' = raised
    /\ UNCHANGED <<args, float_format, prev_option, factor_data, all_returns, stdout, returned>>

\* line 382: merged_data = merged_data.dropna()
DropIncomplete ==
    /\ pc = "dropna"
    /\ merged_data' = Dropna(merged_data)
    /\ work' = Append(work, "dropna")
    /\ pc' = "quantize"
    /\ UNCHANGED <<args, float_format, prev_option, groupby, factor_data, all_returns, stdout, raised, returned>>

\* lines 384-387: merged_data['factor_quantile'] = quantize_factor(...)
Quantize ==
    /\ pc = "quantize"
    /\ LET outcome == quantize_factor(merged_data, args.quantiles, args.bins,
                                      args.by_group)
       IN  /\ stdout' = stdout + outcome.printed
           /\ raised' = outcome.raised
           /\ IF outcome.raised # NoExc
              THEN /\ pc' = "raised"
                   /\ UNCHANGED <<merged_data, work>>
              ELSE /\ merged_data' = SetColumn(merged_data, FACTOR_QUANTILE, outcome.value)
                   /\ work' = Append(work, "factor_quantile")
                   /\ pc' = "return"
    /\ UNCHANGED <<args, float_format, prev_option, groupby, factor_data, all_returns, returned>>

\* mutant: the table is returned without the second dropna
ReturnMerged_NoDropna ==
    /\ pc = "return"
    /\ returned' = merged_data
    /\ pc' = "done"
    /\ UNCHANGED <<args, float_format, prev_option, merged_data, groupby, factor_data, all_returns, work,
                   stdout, raised>>

\* lines 389-391: the second dropna, and the return
ReturnMerged ==
    /\ pc = "return"
    /\ merged_data' = Dropna(merged_data)
    /\ returned' = merged_data'
    /\ pc' = "done"
    /\ UNCHANGED <<args, float_format, prev_option, groupby, factor_data, all_returns, work, stdout, raised>>

NextClean ==
    \/ TimezoneCheck
    \/ ForwardReturns
    \/ AttachFactor
    \/ AttachGroup
    \/ DropIncomplete
    \/ Quantize
    \/ ReturnMerged

-----------------------------------------------------------------------------
(* Specification SpecClean: calls of get_clean_factor_and_forward_returns *)

\* price panels of n dates: asset A rises 1, 2, 3, ..., asset B stays at 2;
\* with a gap, A's second price is missing
CleanPanel(n, gap) ==
    Panel(n, [a \in Range(PanelAssets) |->
                [i \in 1..n |-> IF a = "B" THEN Num(2)
                                ELSE IF gap /\ i = 2 THEN NaN
                                ELSE Num(i)]])

\* a factor: values a1, b1, c1 for assets A, B, C on the first panel date
\* (0: no row), and rows for A and B on a second date d2 (0: no second date)
FactorRows(a1, b1, c1, d2) ==
    (IF a1 # 0 THEN <<<<TS(1), "A", a1>>>> ELSE <<>>)
    \o (IF b1 # 0 THEN <<<<TS(1), "B", b1>>>> ELSE <<>>)
    \o (IF c1 # 0 THEN <<<<TS(1), "C", c1>>>> ELSE <<>>)
    \o (IF d2 # 0 THEN <<<<d2, "A", 1>>, <<d2, "B", 2>>>> ELSE <<>>)

FactorSeries(rows) ==
    Series([i \in DOMAIN rows |-> <<rows[i][1], rows[i][2]>>],
           [i \in DOMAIN rows |-> Num(rows[i][3])])

\* the group code of every asset
CodeOf(a) == IF a \in {"A", "C"} THEN Num(1) ELSE Num(2)

Reverse(s) == [i \in DOMAIN s |-> s[Len(s) + 1 - i]]

\* the group mappings callers pass: a dict over all assets, a dict that knows
\* only A and D, a per-row Series with the factor's keys in reverse order, and
\* that Series without its last row
GroupArg(which, factor) ==
    CASE which = "none"         -> None
      [] which = "dict"         -> Some([kind |-> "dict", ser |-> EmptySeries,
                                         map |-> [a \in {"A", "B", "C", "D"} |-> CodeOf(a)]])
      [] which = "partial_dict" -> Some([kind |-> "dict", ser |-> EmptySeries,
                                         map |-> [a \in {"A", "D"} |-> CodeOf(a)]])
      [] which = "series"       -> Some([kind |-> "series", map |-> <<>>,
                                         ser |-> Series(Reverse(factor.index),
                                                   [i \in DOMAIN factor.index |->
                                                      CodeOf(Reverse(factor.index)[i][2])])])
      [] which = "short_series" -> Some([kind |-> "series", map |-> <<>>,
                                         ser |-> Series(SubSeq(Reverse(factor.index), 1, Len(factor.index) - 1),
                                                   [i \in 1..(Len(factor.index) - 1) |->
                                                      CodeOf(Reverse(factor.index)[i][2])])])

LabelArg(which) ==
    CASE which = "none"    -> None
      [] which = "full"    -> Some([c \in {Num(1), Num(2)} |-> RAdd(c, Num(100))])
      [] which = "partial" -> Some([c \in {Num(1)} |-> RAdd(c, Num(100))])

\* (groupby, groupby_labels, by_group)
GroupConfigs ==
    {<<"none", "none", FALSE>>, <<"none", "none", TRUE>>,
     <<"dict", "none", FALSE>>, <<"dict", "none", TRUE>>,
     <<"dict", "full", TRUE>>, <<"dict", "partial", FALSE>>,
     <<"partial_dict", "none", FALSE>>,
     <<"series", "none", FALSE>>, <<"series", "full", FALSE>>,
     <<"short_series", "none", FALSE>>}

\* (quantiles, bins)
BucketConfigs ==
    {<<Some(Count(2)), None>>,
     <<None, Some(Count(3))>>,
     <<None, Some(Edges(<<Num(1), Num(2), Num(4)>>))>>,
     <<None, None>>,
     <<Some(Count(2)), Some(Count(3))>>}

\* (periods, filter_zscore)
PeriodConfigs ==
    {<<<<1>>, None>>, <<<<1, 2>>, None>>, <<<<1>>, Some(Rat(1, 2))>>}

InitClean ==
    /\ pc = "get_clean_factor_and_forward_returns"
    /\ \E a1 \in {0, 1, 2} : \E b1 \in {0, 2} : \E c1 \in {0, 3} :
       \E d2 \in {0, TS(2), TS(MaxDates + 1)} :
       \E n \in 2..MaxDates : \E gap \in BOOLEAN :
       \E g \in GroupConfigs : \E b \in BucketConfigs : \E p \in PeriodConfigs :
       \E ptz \in {"UTC", "US/Eastern"} :
          LET factor == FactorSeries(FactorRows(a1, b1, c1, d2))
          IN  args = [factor         |-> factor,
                      prices         |-> CleanPanel(n, gap),
                      groupby        |-> GroupArg(g[1], factor),
                      by_group       |-> g[3],
                      quantiles      |-> b[1],
                      bins           |-> b[2],
                      periods        |-> p[1],
                      filter_zscore  |-> p[2],
                      groupby_labels |-> LabelArg(g[2]),
                      factor_tz      |-> "UTC",
                      prices_tz      |-> ptz]
    /\ Fresh

SpecClean == InitClean /\ [][NextClean]_vars

Terminated == pc \in {"done", "raised"}

\* the position of date d on the panel's date axis, 0 when absent
DatePos(prices, d) == Pos(prices.index, d)

\* the factor value of a key lies inside explicit bin edges (e1, ek]
InsideEdges(v, edges) == RLess(edges[1], v) /\ RLeq(v, edges[Len(edges)])

\* the call has no reason to fail but missing data: the timezones agree, the
\* group mapping and labels are complete and as long as the factor, by_group
\* comes with a group mapping, and the buckets are explicit bin edges
OnlyDataCanBeMissing ==
    /\ args.factor_tz = args.prices_tz
    /\ args.groupby.some =>
          /\ args.groupby.v.kind = "dict" =>
                AssetsOf(args.factor.index) \subseteq DOMAIN args.groupby.v.map
          /\ args.groupby.v.kind = "series" => ~args.groupby_labels.some
          /\ args.groupby_labels.some =>
                {Num(1), Num(2)} \subseteq DOMAIN args.groupby_labels.v
    /\ args.by_group => args.groupby.some
    /\ ~args.quantiles.some /\ args.bins.some /\ args.bins.v.kind = "edges"

\* C2: a returned table has no missing value in any of its columns (every
\* period, factor, group when a group mapping is supplied, factor_quantile)
\* and its factor_quantile values are integers >= 1; a (date, asset) row that
\* lacks a forward return, a factor value, a group or a bucket is not in the
\* table, and missing data alone never makes the call raise.
C2_NoMissingValueSurvives ==
    /\ pc = "done" =>
          /\ DOMAIN returned.data =
                {ColInt(P) : P \in Range(args.periods)}
                  \cup {FACTOR, FACTOR_QUANTILE}
                  \cup (IF args.groupby.some THEN {GROUP} ELSE {})
          /\ Range(returned.columns) = DOMAIN returned.data
          /\ \A c \in DOMAIN returned.data : \A i \in DOMAIN returned.index :
                ~IsNaN(returned.data[c][i])
          /\ \A i \in DOMAIN returned.index :
                LET q == returned.data[FACTOR_QUANTILE][i]
                IN  q[2] = 1 /\ q[1] >= 1
          /\ \A k \in Range(returned.index) :
                LET fr == compute_forward_returns(args.prices, args.periods,
                                                  args.filter_zscore)
                IN  /\ k \in Range(fr.index)
                    /\ \A P \in Range(args.periods) :
                          ~IsNaN(Lookup(Column(fr, ColInt(P)), k))
                    /\ ~IsNaN(Lookup(args.factor, k))
                    /\ args.groupby.some => ~IsNaN(Lookup(groupby.v, k))
                    /\ (args.bins.some /\ args.bins.v.kind = "edges") =>
                          InsideEdges(Lookup(args.factor, k), args.bins.v.edges)
    /\ (Terminated /\ OnlyDataCanBeMissing) => pc = "done"

\* every kind of gap at once: a price gap, a factor row at the panel's last
\* date, a factor asset without prices, a value outside the bin edges; one
\* complete row is returned
C2_Witness ==
    /\ pc = "done"
    /\ args.bins.some /\ args.bins.v.kind = "edges"
    /\ ~NoMissingPrices(args.prices)
    /\ Len(args.prices.index) = 2
    /\ args.factor.index = <<<<TS(1), "A">>, <<TS(1), "B">>, <<TS(1), "C">>,
                             <<TS(2), "A">>, <<TS(2), "B">>>>
    /\ args.factor.values[1] = Num(1)
    /\ returned.index = <<<<TS(1), "B">>>>
    /\ returned.data[FACTOR_QUANTILE] = <<Num(1)>>

\* the largest requested period
MaxPeriod == CHOOSE P \in Range(args.periods) : \A Q \in Range(args.periods) : Q <= P

InvalidBucketConfig == args.quantiles.some = args.bins.some

\* C5: whenever both or neither of quantiles and bins are supplied, the call
\* fails with the configuration error before any computation, whatever the
\* input table (stated for calls whose timezones agree and whose group mapping
\* is complete, where no other check comes first)
C5_ConfigErrorBeforeAnyComputation ==
    (/\ Terminated
     /\ InvalidBucketConfig
     /\ args.factor_tz = args.prices_tz
     /\ ~args.groupby.some /\ ~args.by_group)
    => /\ pc = "raised"
       /\ raised = ConfigError
       /\ work = <<>>

\* C6: with a dict as group mapping (and matching timezones), the call fails
\* with the KeyError that lists exactly the factor's assets missing from the
\* dict and returns no table when there is such an asset, and never raises that
\* error when there is none.
C6_MissingAssetsListedExactly ==
    (/\ Terminated
     /\ args.factor_tz = args.prices_tz
     /\ args.groupby.some /\ args.groupby.v.kind = "dict")
    => LET diff == AssetsOf(args.factor.index) \ DOMAIN args.groupby.v.map
       IN  /\ diff # {} =>
                /\ pc = "raised"
                /\ raised.type = "KeyError"
                /\ raised.msg = <<"Assets ", " not in group mapping">>
                /\ raised.assets = diff
                /\ returned = EmptyFrame
           /\ diff = {} =>
                ~(raised.type = "KeyError" /\ raised.msg = <<"Assets ", " not in group mapping">>)

\* the dict knows A and D; the factor has A and C, the panel A and B: only C
\* is listed
C6_Witness ==
    /\ pc = "raised"
    /\ args.groupby.some /\ args.groupby.v.kind = "dict"
    /\ DOMAIN args.groupby.v.map = {"A", "D"}
    /\ AssetsOf(args.factor.index) = {"A", "C"}
    /\ Range(args.prices.columns) = {"A", "B"}
    /\ raised.type = "KeyError"
    /\ raised.assets = {"C"}

-----------------------------------------------------------------------------
(* get_forward_returns_columns and demean_forward_returns *)

DigitChars == <<"0", "1", "2", "3", "4", "5", "6", "7", "8", "9">>

\* str(n) for a natural number: its decimal digits
RECURSIVE Digits(_)
Digits(n) ==
    IF n < 10 THEN <<DigitChars[n + 1]>>
    ELSE Append(Digits(n \div 10), DigitChars[(n % 10) + 1])

\* columns.astype('str'): the text of one label
AsTypeStr(label) ==
    IF label.kind = "int"
    THEN IF label.n < 0 THEN <<"-">> \o Digits(-label.n) ELSE Digits(label.n)
    ELSE label.s

\* str.isdigit(): not empty and made of digits only
IsDigit(s) == s # <<>> /\ \A i \in DOMAIN s : s[i] \in Range(DigitChars)

get_forward_returns_columns(columns) ==
    SelectSeq(columns, LAMBDA c : IsDigit(AsTypeStr(c)))

\* factor_data.copy(): a new object holding the same table
DataFrameCopy(df) == [shares |-> FALSE, frame |-> df]

\* mutant: the grouper argument is ignored, the rows are always grouped by date
Grouper_AlwaysDate(grouper) == <<"date">>

\* lines 179-180: None or an empty list selects the date level of the index
Grouper(grouper) ==
    IF ~grouper.some \/ grouper.v = <<>> THEN <<"date">> ELSE grouper.v

\* the key of row i under a grouper made of the date level and column names
DemeanKey(df, i, by) ==
    [k \in DOMAIN by |->
        IF by[k] = "date" THEN Num(df.index[i][1]) ELSE df.data[GROUP][i]]

\* groupby(grouper)[cols].transform(lambda x: x - x.mean()) for one column
GroupbyTransform(df, by, c) ==
    Fix([i \in DOMAIN df.index |->
        LET rows == SelectSeq(Iota(Len(df.index)),
                        LAMBDA j : DemeanKey(df, j, by) = DemeanKey(df, i, by))
        IN  RSub(df.data[c][i], Mean(Take(df.data[c], rows)))])

\* the call (lines 177-186): the table it returns, and the caller's table
\* once the call is over
demean_forward_returns(fd, grouper) ==
    LET copy == DataFrameCopy(fd)
        by   == Grouper(grouper)
        cols == get_forward_returns_columns(copy.frame.columns)
        new  == [index   |-> copy.frame.index,
                 columns |-> copy.frame.columns,
                 data    |-> Fix([c \in DOMAIN copy.frame.data |->
                                IF c \in Range(cols)
                                THEN GroupbyTransform(copy.frame, by, c)
                                ELSE copy.frame.data[c]])]
    IN  [value |-> new, caller |-> IF copy.shares THEN new ELSE fd]

-----------------------------------------------------------------------------
(* Specification SpecDemean: calls of demean_forward_returns *)

\* most rows of a table handed to demean_forward_returns
MaxDemeanRows == 4

DemeanAssets == <<"A", "B", "C">>

ReturnValues == {Num(-1), Num(0), Num(2)}

\* a table of m rows as the pipeline returns it: period columns 1 and
\* (optionally) 10, factor, (optionally) group, factor_quantile
DemeanTable(m, r, two_periods, with_group) ==
    LET index == SubSeq(FromProduct(<<TS(1), TS(2)>>, DemeanAssets), 1, m)
        cols  == (IF two_periods THEN <<ColInt(1), ColInt(10)>> ELSE <<ColInt(1)>>)
                 \o <<FACTOR>>
                 \o (IF with_group THEN <<GROUP>> ELSE <<>>)
                 \o <<FACTOR_QUANTILE>>
    IN  [index   |-> index,
         columns |-> cols,
         data    |-> Fix([c \in Range(cols) |->
                        IF c = ColInt(1) THEN r
                        ELSE IF c = ColInt(10) THEN [i \in 1..m |-> Rat(i * i, 2)]
                        ELSE IF c = FACTOR THEN [i \in 1..m |-> Num(i)]
                        ELSE IF c = GROUP THEN [i \in 1..m |-> QFGroupOf(index[i][2])]
                        ELSE [i \in 1..m |-> Num(1 + (i % 2))]])]

\* (grouper, the table has a second period column, the table has a group column)
DemeanConfigs ==
    {<<None, FALSE, FALSE>>,
     <<None, TRUE, TRUE>>,
     <<Some(<<>>), TRUE, FALSE>>,
     <<Some(<<"date">>), FALSE, TRUE>>,
     <<Some(<<"group">>), TRUE, TRUE>>,
     <<Some(<<"date", "group">>), FALSE, TRUE>>,
     <<Some(<<"date", "group">>), TRUE, TRUE>>}

InitDemean ==
    /\ pc = "demean_forward_returns"
    /\ \E m \in 1..MaxDemeanRows :
       \E r \in [1..m -> ReturnValues] :
       \E c \in DemeanConfigs :
          /\ args = [factor_data |-> DemeanTable(m, r, c[2], c[3]), grouper |-> c[1]]
          /\ merged_data = args.factor_data
    /\ groupby = None
    /\ factor_data = EmptyFrame
    /\ all_returns = <<>>
    /\ work = <<>>
    /\ stdout = 0
    /\ raised = NoExc
    /\ returned = EmptyFrame
    /\ float_format = None
    /\ prev_option = None

\* a call of demean_forward_returns on the caller's table merged_data
DemeanForwardReturnsCall ==
    /\ pc = "demean_forward_returns"
    /\ LET out == demean_forward_returns(merged_data, args.grouper)
       IN  /\ factor_data' = out.value
           /\ returned' = out.value
           /\ merged_data' = out.caller
    /\ pc' = "done"
    /\ UNCHANGED <<args, float_format, prev_option, groupby, all_returns, work, stdout, raised>>

NextDemean == DemeanForwardReturnsCall

SpecDemean == InitDemean /\ [][NextDemean]_vars

\* the rows of the call's table that share row i's date, or row i's value of
\* the supplied grouping key
SameGroup(i) ==
    LET fd == args.factor_data
        g  == args.grouper
    IN  {j \in DOMAIN fd.index :
            IF ~g.some \/ g.v = <<>> THEN fd.index[j][1] = fd.index[i][1]
            ELSE \A k \in DOMAIN g.v :
                    IF g.v[k] = "date" THEN fd.index[j][1] = fd.index[i][1]
                    ELSE fd.data[GROUP][j] = fd.data[GROUP][i]}

\* C8: after demean_forward_returns, every period column sums to zero over the
\* rows of each date (or of each value of the supplied grouping key) and keeps
\* the differences between the rows of one group; the returned table has the
\* index and the columns of the input; the factor, group and factor_quantile
\* columns are unchanged; and the caller's table is what it was before the call.
C8_DemeanedReturnsSumToZero ==
    pc = "done" =>
        LET fd == args.factor_data
        IN  /\ returned.index = fd.index
            /\ returned.columns = fd.columns
            /\ DOMAIN returned.data = DOMAIN fd.data
            /\ merged_data = fd
            /\ \A c \in Range(fd.columns) :
                 IF c.kind = "int"
                 THEN \A i \in DOMAIN fd.index :
                        /\ SumSeq(Take(returned.data[c],
                               SelectSeq(Iota(Len(fd.index)),
                                         LAMBDA j : j \in SameGroup(i)))) = Num(0)
                        /\ \A j \in SameGroup(i) :
                             RSub(returned.data[c][i], returned.data[c][j])
                               = RSub(fd.data[c][i], fd.data[c][j])
                 ELSE returned.data[c] = fd.data[c]

\* a table with two dates, two period columns and a group column, demeaned by
\* (date, group): a group of two rows with different returns, so that the
\* demeaned values are not the input's
C8_Witness ==
    /\ pc = "done"
    /\ args.grouper = Some(<<"date", "group">>)
    /\ Len(args.factor_data.index) = 4
    /\ ColInt(10) \in Range(args.factor_data.columns)
    /\ args.factor_data.data[ColInt(1)] = <<Num(2), Num(0), Num(0), Num(-1)>>
    /\ returned.data[ColInt(1)] = <<Num(1), Num(0), Num(-1), Num(0)>>
    /\ returned.data[FACTOR] = args.factor_data.data[FACTOR]

-----------------------------------------------------------------------------
(* common_start_returns *)

MaxOf(a, b) == IF a >= b THEN a ELSE b

MinOf(a, b) == IF a <= b THEN a ELSE b

\* the elements of a set of integers in ascending order
RECURSIVE Ascending(_)
Ascending(S) ==
    IF S = {} THEN <<>>
    ELSE LET m == CHOOSE x \in S : \A y \in S : x <= y
         IN  <<m>> \o Ascending(S \ {m})

\* lines 440-443: the prices themselves, or their one-step percent changes
Returns(prices, cumulative) ==
    IF cumulative THEN prices
    ELSE [index   |-> prices.index,
          columns |-> prices.columns,
          data    |-> Fix([a \in DOMAIN prices.data |-> PctChange(prices.data[a], 1)])]

\* the keys of factor.groupby(level='date'), in the order the loop sees them
EventDates(factor) == Ascending({factor.index[i][1] : i \in DOMAIN factor.index})

\* frame.loc[timestamp].index.get_level_values('asset'): the assets of the
\* rows of one date, in the frame's order
EquitiesAt(frame, timestamp) ==
    LET rows == SelectSeq(Iota(Len(frame.index)),
                          LAMBDA i : frame.index[i][1] = timestamp)
    IN  Fix([k \in DOMAIN rows |-> frame.index[rows[k]][2]])

\* mutant: the window's rows are numbered from its first row
WindowIndex_FromStart(starting_index, ending_index, day_zero_index) ==
    Fix([i \in 1..(ending_index - starting_index) |-> i - 1])

\* lines 468-469: range(starting_index - day_zero_index,
\*                      ending_index - day_zero_index)
WindowIndex(starting_index, ending_index, day_zero_index) ==
    Fix([i \in 1..(ending_index - starting_index) |->
            starting_index - day_zero_index + i - 1])

\* lines 456-480 for an event date found at the 0-based position
\* day_zero_index; columns is the order in which the set equities_slice is
\* laid out, demean_equities is None when demean is None
Window(returns, day_zero_index, equities, columns, demean_equities, before, after, cumulative, mean_by_date) ==
    LET starting_index == MaxOf(day_zero_index - before, 0)
        ending_index   == MinOf(day_zero_index + after + 1, Len(returns.index))
        index   == WindowIndex(starting_index, ending_index, day_zero_index)
        zero    == Pos(index, 0)
        sliced  == Fix([a \in Range(columns) |->
                      SubSeq(returns.data[a], starting_index + 1, ending_index)])
        rebased == IF cumulative
                   THEN Fix([a \in Range(columns) |->
                          Fix([i \in DOMAIN index |->
                              RSub(RDiv(sliced[a][i], sliced[a][zero]), Num(1))])])
                   ELSE sliced
        mean    == Fix([i \in DOMAIN index |->
                      Mean([k \in DOMAIN demean_equities.v |->
                               rebased[demean_equities.v[k]][i]])])
        kept    == IF demean_equities.some THEN equities ELSE columns
        series  == Fix([k \in DOMAIN kept |->
                      IF demean_equities.some
                      THEN Fix([i \in DOMAIN index |->
                               RSub(rebased[kept[k]][i], mean[i])])
                      ELSE rebased[kept[k]]])
    IN  IF mean_by_date
        THEN [ndim |-> 1, index |-> index, columns |-> <<>>,
              data |-> <<Fix([i \in DOMAIN index |->
                            Mean([k \in DOMAIN kept |-> series[k][i]])])>>]
        ELSE [ndim |-> 2, index |-> index, columns |-> kept, data |-> series]

\* the columns of objs[k..] re-indexed on the joint index; a Series is
\* labelled by its 0-based position in the list
RECURSIVE ConcatFrom(_, _, _)
ConcatFrom(objs, k, index) ==
    IF k > Len(objs) THEN <<>>
    ELSE LET w == objs[k]
         IN  [j \in DOMAIN w.data |->
                [label  |-> IF w.ndim = 1 THEN k - 1 ELSE w.columns[j],
                 values |-> Fix([i \in DOMAIN index |->
                               LET p == Pos(w.index, index[i])
                               IN  IF p = 0 THEN NaN ELSE w.data[j][p]])]]
             \o ConcatFrom(objs, k + 1, index)

\* pd.concat(objs, axis=1): an outer join on the row labels; an empty list is
\* an error
pd_concat(objs) ==
    IF objs = <<>>
    THEN Raise(Exc("ValueError", <<"No objects to concatenate">>, {}, {}))
    ELSE LET index == Ascending(UNION {Range(objs[k].index) : k \in DOMAIN objs})
             cols  == ConcatFrom(objs, 1, index)
         IN  Return([index   |-> index,
                     columns |-> Fix([j \in DOMAIN cols |-> cols[j].label]),
                     data    |-> Fix([j \in DOMAIN cols |-> cols[j].values])])

\* the event date the loop of line 447 handles next: work lists the dates
\* already handled
Pending == Len(work) < Len(EventDates(args.factor))

Timestamp == EventDates(args.factor)[Len(work) + 1]

\* lines 451-454: the date is not on the panel's date axis, the loop goes on
SkipAbsentDate ==
    /\ pc = "common_start_returns"
    /\ Pending
    /\ Pos(args.prices.index, Timestamp) = 0
    /\ work' = Append(work, Timestamp)
    /\ UNCHANGED <<pc, args, float_format, prev_option, merged_data, groupby, factor_data, all_returns,
                   stdout, raised, returned>>

\* lines 462-463: demean has no row for a date the panel has
DemeanLookupFails ==
    /\ pc = "common_start_returns"
    /\ Pending
    /\ Pos(args.prices.index, Timestamp) # 0
    /\ args.demean.some
    /\ EquitiesAt(args.demean.v, Timestamp) = <<>>
    /\ raised' = Exc("KeyError", <<"timestamp">>, {}, {Timestamp})
    /\ pc' = "raised"
    /\ UNCHANGED <<args, float_format, prev_option, merged_data, groupby, factor_data, all_returns,
                   work, stdout, returned>>

\* lines 456-482: the window of one event date is appended
AppendWindow ==
    /\ pc = "common_start_returns"
    /\ Pending
    /\ Pos(args.prices.index, Timestamp) # 0
    /\ args.demean.some => EquitiesAt(args.demean.v, Timestamp) # <<>>
    /\ LET equities        == EquitiesAt(args.factor, Timestamp)
           demean_equities == IF args.demean.some
                              THEN Some(EquitiesAt(args.demean.v, Timestamp))
                              ELSE None
           equities_slice  == Range(equities) \cup
                              (IF demean_equities.some
                               THEN Range(demean_equities.v) ELSE {})
       IN  \E columns \in {s \in [1..Cardinality(equities_slice) -> equities_slice] :
                              Range(s) = equities_slice} :
              all_returns' = Append(all_returns,
                  Window(Returns(args.prices, args.cumulative),
                         Pos(args.prices.index, Timestamp) - 1,
                         equities, columns, demean_equities,
                         args.before, args.after,
                         args.cumulative, args.mean_by_date))
    /\ work' = Append(work, Timestamp)
    /\ UNCHANGED <<pc, args, float_format, prev_option, merged_data, groupby, factor_data,
                   stdout, raised, returned>>

\* line 484, once the loop is over
ConcatWindows ==
    /\ pc = "common_start_returns"
    /\ ~Pending
    /\ LET outcome == pd_concat(all_returns)
       IN  /\ raised' = outcome.raised
           /\ returned' = IF outcome.raised = NoExc THEN outcome.value ELSE returned
           /\ pc' = IF outcome.raised = NoExc THEN "done" ELSE "raised"
    /\ UNCHANGED <<args, float_format, prev_option, merged_data, groupby, factor_data, all_returns,
                   work, stdout>>

NextCSR ==
    \/ SkipAbsentDate
    \/ DemeanLookupFails
    \/ AppendWindow
    \/ ConcatWindows

-----------------------------------------------------------------------------
(* Specification SpecCSR: calls of common_start_returns *)

\* largest `before` and `after` a caller passes
MaxBefore == 2

MaxAfter == 3

\* a panel of n dates: asset A starts at a1 and then takes the squares, asset
\* B takes 3, 4, 5, ..., so that no two rows of the panel are alike
CSRPanel(n, a1) ==
    [index   |-> [i \in 1..n |-> TS(i)],
     columns |-> PanelAssets,
     data    |-> [a \in Range(PanelAssets) |->
                    IF a = "A" THEN [i \in 1..n |-> IF i = 1 THEN a1 ELSE Num(i * i)]
                    ELSE [i \in 1..n |-> Num(i + 2)]]]

\* a table with one row per (date, asset), the latest date first
EventTable(dates, assets) ==
    LET index == FromProduct(Reverse(Ascending(dates)), assets)
    IN  [index   |-> index,
         columns |-> <<FACTOR>>,
         data    |-> [c \in {FACTOR} |-> [i \in DOMAIN index |-> Num(1)]]]

\* the demean argument: None, the factor itself, every panel asset on every
\* event date, or every panel asset on the earliest event date only
DemeanArg(which, factor, dates) ==
    IF which = "none" THEN None
    ELSE IF which = "factor" THEN Some(factor)
    ELSE IF which = "universe" THEN Some(EventTable(dates, PanelAssets))
    ELSE Some(EventTable(IF dates = {} THEN {} ELSE {Ascending(dates)[1]},
                         PanelAssets))

InitCSR ==
    /\ pc = "common_start_returns"
    /\ \E n \in 1..MaxDates :
       \E a1 \in PanelCells :
       \E present \in SUBSET (1..n) :
       \E absent \in {{}, {5}, {TS(n) + 5}} :
       \E assets \in {<<"A">>, <<"B", "A">>} :
       \E dm \in {"none", "factor", "universe", "first"} :
       \E before \in 0..MaxBefore :
       \E after \in 0..MaxAfter :
       \E cumulative \in BOOLEAN :
       \E mean_by_date \in BOOLEAN :
          LET dates  == {TS(i) : i \in present} \cup absent
              factor == EventTable(dates, assets)
          IN  args = [factor |-> factor, prices |-> CSRPanel(n, a1),
                      before |-> before, after |-> after,
                      cumulative |-> cumulative, mean_by_date |-> mean_by_date,
                      demean |-> DemeanArg(dm, factor, dates)]
    /\ Fresh

SpecCSR == InitCSR /\ [][NextCSR]_vars

\* the event dates handled so far that lie on the panel's date axis
Found == SelectSeq(work, LAMBDA t : Pos(args.prices.index, t) # 0)

\* C9: the k-th window belongs to the k-th event date found on the panel; for
\* an event date at 0-based position p of a panel of n dates its offsets are
\* exactly max(-before, -p) .. min(after, n-1-p), and offset i holds the
\* panel row p+i: the one-step return of that row, or with cumulative=True the
\* price of that row relative to the event date's own price (so offset 0 is
\* the event date's row).  Values are compared when no demeaning and no
\* averaging is asked for and the panel has no missing price.
C9_WindowClippedAtPanelBoundaries ==
    LET prices == args.prices
        n      == Len(prices.index)
    IN  /\ Len(all_returns) = Len(Found)
        /\ \A k \in DOMAIN all_returns :
             LET w  == all_returns[k]
                 p  == Pos(prices.index, Found[k]) - 1
                 lo == MaxOf(-args.before, -p)
                 hi == MinOf(args.after, n - 1 - p)
             IN  /\ w.index = [i \in 1..(hi - lo + 1) |-> lo + i - 1]
                 /\ lo <= 0 /\ 0 <= hi
                 /\ (/\ ~args.demean.some /\ ~args.mean_by_date
                     /\ NoMissingPrices(prices))
                    => \A j \in DOMAIN w.columns : \A i \in DOMAIN w.index :
                         LET a == w.columns[j]
                             q == p + 1 + w.index[i]
                         IN  w.data[j][i] =
                               IF args.cumulative
                               THEN RSub(RDiv(prices.data[a][q], prices.data[a][p + 1]),
                                         Num(1))
                               ELSE IF q = 1 THEN NaN
                               ELSE RSub(RDiv(prices.data[a][q], prices.data[a][q - 1]),
                                         Num(1))

\* before=2 and after=3 on a panel of three dates: the event at the first
\* date gets offsets 0..2, the event at the last date offsets -2..0
C9_Witness ==
    /\ args.before = 2 /\ args.after = 3
    /\ Len(args.prices.index) = 3
    /\ NoMissingPrices(args.prices)
    /\ ~args.cumulative /\ ~args.mean_by_date /\ ~args.demean.some
    /\ Found = <<TS(1), TS(3)>>
    /\ Len(all_returns) = 2
    /\ all_returns[1].index = <<0, 1, 2>>
    /\ all_returns[2].index = <<-2, -1, 0>>
    /\ all_returns[2].columns = <<"A", "B">>
    /\ all_returns[2].data[1] = <<NaN, Num(3), Rat(5, 4)>>

\* the number of columns the result has when every event date found on the
\* panel contributes its window
ExpectedColumns ==
    LET on_panel == {t \in Range(EventDates(args.factor)) :
                        Pos(args.prices.index, t) # 0}
    IN  IF args.mean_by_date THEN Cardinality(on_panel)
        ELSE Cardinality({i \in DOMAIN args.factor.index :
                             args.factor.index[i][1] \in on_panel})

\* C10: with no demean table, a call on a factor table that has events ends
\* without an error whatever subset of the event dates is on the panel, and
\* returns the windows of exactly the event dates that are.
C10_AbsentEventDateSkipped ==
    (/\ Terminated
     /\ ~args.demean.some
     /\ args.factor.index # <<>>)
    => /\ pc = "done"
       /\ raised = NoExc
       /\ Len(returned.columns) = ExpectedColumns

\* the part of C10 the code keeps: when some event date is on the panel, the
\* absent ones are skipped and the others' windows are returned
AbsentDateSkippedWhenSomeDateFound ==
    (/\ Terminated
     /\ ~args.demean.some
     /\ \E t \in Range(EventDates(args.factor)) : Pos(args.prices.index, t) # 0)
    => /\ pc = "done"
       /\ raised = NoExc
       /\ Len(returned.columns) = ExpectedColumns

-----------------------------------------------------------------------------
(* print_table *)

\* a format string: its text, the positional field it reads and the
\* presentation code it applies
FormatString(text, field, code) == [text |-> text, field |-> field, code |-> code]

\* fmt.format(x) for a float x: one positional argument is passed, and the
\* integer presentation code 'd' rejects a float
Format(fmt, x) ==
    IF fmt.field # 0
    THEN Raise(Exc("IndexError", <<"tuple index out of range">>, {}, {}))
    ELSE IF fmt.code = "d"
    THEN Raise(Exc("ValueError", <<"Unknown format code 'd' for object of type 'float'">>, {}, {}))
    ELSE Return(<<fmt.text, x>>)

\* lines 207-211: a Series becomes a DataFrame, and the name labels the columns
LocalTable(table, name) ==
    [kind |-> "DataFrame", values |-> table.values, columns_name |-> name]

\* display(table): every float that is not missing goes through the option
\* display.float_format when one is set; the first failing cell ends the
\* rendering
display(table, option) ==
    LET cells  == Fix([i \in DOMAIN table.values |->
                     IF IsNaN(table.values[i]) \/ ~option.some
                     THEN Return(<<"repr", table.values[i]>>)
                     ELSE Format(option.v, table.values[i])])
        failed == {i \in DOMAIN cells : cells[i].raised # NoExc}
    IN  IF failed # {}
        THEN Raise(cells[CHOOSE i \in failed : \A j \in failed : i <= j].raised)
        ELSE Return([name |-> table.columns_name,
                     cells |-> Fix([i \in DOMAIN cells |-> cells[i].value])])

\* lines 213-215: the option is read, and overridden when fmt is given
OverrideOption ==
    /\ pc = "print_table"
    /\ prev_option' = float_format
    /\ float_format' = IF args.fmt.some THEN Some(args.fmt.v) ELSE float_format
    /\ pc' = "display"
    /\ UNCHANGED <<args, merged_data, groupby, factor_data, all_returns,
                   work, stdout, raised, returned>>

\* line 217: the table is rendered, or the rendering raises and the call ends
Display ==
    /\ pc = "display"
    /\ LET outcome == display(LocalTable(args.table, args.name), float_format)
       IN  IF outcome.raised # NoExc
           THEN /\ raised' = outcome.raised
                /\ pc' = "raised"
                /\ UNCHANGED <<work, stdout>>
           ELSE /\ work' = Append(work, outcome.value)
                /\ stdout' = stdout + 1
                /\ pc' = "restore"
                /\ UNCHANGED raised
    /\ UNCHANGED <<args, float_format, prev_option, merged_data, groupby,
                   factor_data, all_returns, returned>>

\* lines 219-220: the option is put back when fmt was given
RestoreOption ==
    /\ pc = "restore"
    /\ float_format' = IF args.fmt.some THEN prev_option ELSE float_format
    /\ pc' = "done"
    /\ UNCHANGED <<args, prev_option, merged_data, groupby, factor_data,
                   all_returns, work, stdout, raised, returned>>

NextPrint ==
    \/ OverrideOption
    \/ Display
    \/ RestoreOption

-----------------------------------------------------------------------------
(* Specification SpecPrint: calls of print_table *)

\* most cells of a table handed to print_table
MaxCells == 2

PERCENT == FormatString("{0:.2f}%", 0, "f")

THREE_DECIMALS == FormatString("{:.3f}", 0, "f")

INTEGER == FormatString("{0:d}", 0, "d")

SECOND_FIELD == FormatString("{1}", 1, "")

InitPrint ==
    /\ pc = "print_table"
    /\ \E m \in 0..MaxCells :
       \E values \in [1..m -> {Rat(1, 2), Num(2), NaN}] :
       \E kind \in {"Series", "DataFrame"} :
       \E name \in {None, Some("Returns")} :
       \E fmt \in {None, Some(PERCENT), Some(INTEGER), Some(SECOND_FIELD)} :
       \E option \in {None, Some(THREE_DECIMALS), Some(INTEGER)} :
          /\ args = [table |-> [kind |-> kind, values |-> values, columns_name |-> None],
                     name |-> name, fmt |-> fmt, float_format |-> option]
          /\ float_format = option
    /\ prev_option = None
    /\ merged_data = EmptyFrame
    /\ groupby = None
    /\ factor_data = EmptyFrame
    /\ all_returns = <<>>
    /\ work = <<>>
    /\ stdout = 0
    /\ raised = NoExc
    /\ returned = EmptyFrame

SpecPrint == InitPrint /\ [][NextPrint]_vars

\* C11: when the call is over, returned or raised, display.float_format holds
\* the value it held when the call started (args.float_format); and when no
\* format string is given the option never changes during the call.
C11_FloatFormatRestoredOnEveryExit ==
    /\ Terminated => float_format = args.float_format
    /\ ~args.fmt.some => float_format = args.float_format

\* the part of C11 the code keeps: the option is restored when the rendering
\* returns, and is never touched when no format string is given
FloatFormatRestoredOnReturn ==
    /\ pc = "done" => float_format = args.float_format
    /\ ~args.fmt.some => float_format = args.float_format

-----------------------------------------------------------------------------
(* The group column of the pipeline, under SpecClean *)

\* the call was given a per-row group mapping with exactly the factor's keys
PerRowMappingGiven ==
    /\ args.factor_tz = args.prices_tz
    /\ args.groupby.some /\ args.groupby.v.kind = "series"
    /\ Range(args.groupby.v.ser.index) = Range(args.factor.index)
    /\ Len(args.groupby.v.ser.index) = Len(args.factor.index)

\* C12: with a per-row group mapping that has the factor's keys (in any row
\* order) and display labels, the group stored at each (date, asset) row of
\* the merged table that the factor holds is the label of the code the
\* mapping gives to that same (date, asset).
C12_LabelsReplaceCodesKeyByKey ==
    (/\ PerRowMappingGiven
     /\ args.groupby_labels.some
     /\ GROUP \in DOMAIN merged_data.data)
    => \A i \in DOMAIN merged_data.index :
          merged_data.index[i] \in Range(args.factor.index)
             => merged_data.data[GROUP][i]
                  = args.groupby_labels.v[Lookup(args.groupby.v.ser, merged_data.index[i])]

\* the part of C12 the code keeps: without display labels the codes of a
\* per-row mapping are attached key by key, whatever the row order
CodesAttachedKeyByKey ==
    (/\ PerRowMappingGiven
     /\ ~args.groupby_labels.some
     /\ GROUP \in DOMAIN merged_data.data)
    => \A i \in DOMAIN merged_data.index :
          merged_data.index[i] \in Range(args.factor.index)
             => merged_data.data[GROUP][i]
                  = Lookup(args.groupby.v.ser, merged_data.index[i])

=============================================================================
